---- MODULE Spec2Model ----
(***************************************************************************)
(* A model of the sumcheck engine of ark-whir (SumcheckSingle), of the     *)
(* evaluation-form polynomial (EvaluationsList) it works on, of the        *)
(* equality-table expansion eval_eq, and of a WHIR run (commit, prove,     *)
(* verify) around them.  Field elements are the residues of a small prime  *)
(* field; tables keep the code's 0-based indices through At.               *)
(***************************************************************************)
EXTENDS Integers, Sequences, FiniteSets, TLC

\* ------------------------------------------------------------------ bounds
MaxVars == 2
MaxEqs == 2

\* ------------------------------------------------------------- the field F
\* The code is generic over F: Field; the model instantiates it with GF(7).
Modulus == 7

Fp == 0 .. (Modulus - 1)

FAdd(a, b) == (a + b) % Modulus

FSub(a, b) == ((a - b) + Modulus) % Modulus

FMul(a, b) == (a * b) % Modulus

FOne == 1 % Modulus

FZero == 0

\* two = F::ONE + F::ONE
FTwo == FAdd(FOne, FOne)

\* The inverse of a nonzero field element.
FInv(a) == CHOOSE b \in Fp : FMul(a, b) = FOne

\* 1 << k
Pow2(k) == 2 ^ k

Min(a, b) == IF a <= b THEN a ELSE b

\* Sum in F of f(lo) .. f(hi), by halves.
RECURSIVE FSumRange(_, _, _)
FSumRange(f, lo, hi) ==
    IF lo > hi THEN FZero
    ELSE IF lo = hi THEN f[lo] % Modulus
    ELSE LET mid == (lo + hi) \div 2
         IN FAdd(FSumRange(f, lo, mid), FSumRange(f, mid + 1, hi))

\* Sum in F of f(0) .. f(n-1), f a function on 0 .. n-1.
FSum(f, n) == FSumRange(f, 0, n - 1)

\* -------------------------------------------------------- EvaluationsList
\* impl Index<usize>: 0-based access to the stored evaluations.
At(list, i) == list[i + 1]

NumEvals(list) == Len(list)

\* ilog2 of a power of two
RECURSIVE Log2(_)
Log2(len) == IF len <= 1 THEN 0 ELSE 1 + Log2(len \div 2)

\* ------------------------------------------------------- MultilinearPoint
None == -1

\* to_hypercube: the index of a Boolean point (first coordinate = most
\* significant bit), None when some coordinate is neither 0 nor 1.
RECURSIVE ToHypercubeFrom(_, _)
ToHypercubeFrom(point, counter) ==
    IF point = <<>> THEN counter
    ELSE IF Head(point) = FZero THEN ToHypercubeFrom(Tail(point), 2 * counter)
    ELSE IF Head(point) = FOne THEN ToHypercubeFrom(Tail(point), 2 * counter + 1)
    ELSE None

ToHypercube(point) == ToHypercubeFrom(point, 0)

\* from_binary_hypercube_point(i, n)
FromBinaryHypercubePoint(i, n) ==
    [j \in 1 .. n |-> IF (i \div Pow2(n - j)) % 2 = 1 THEN FOne ELSE FZero]

\* eq_poly(coords, point): the coordinates are read last to first against the
\* bits of point, least significant first.
RECURSIVE EqPolyFrom(_, _, _)
EqPolyFrom(coords, point, acc) ==
    IF coords = <<>> THEN acc
    ELSE LET val == coords[Len(coords)]
             b == point % 2
         IN EqPolyFrom(SubSeq(coords, 1, Len(coords) - 1), point \div 2,
                       FMul(acc, IF b = 1 THEN val ELSE FSub(FOne, val)))

EqPoly(coords, point) == EqPolyFrom(coords, point, FOne)

\* The general branch of EvaluationsList::evaluate.
EvaluateSum(evals, point) ==
    FSum([i \in 0 .. (NumEvals(evals) - 1) |-> FMul(EqPoly(point, i), At(evals, i))],
         NumEvals(evals))

EvaluateFirstCell(evals, point) ==
    IF ToHypercube(point) # None THEN At(evals, 0) ELSE EvaluateSum(evals, point)

\* EvaluationsList::evaluate
Evaluate(evals, point) ==
    IF ToHypercube(point) # None THEN At(evals, ToHypercube(point))
    ELSE EvaluateSum(evals, point)

\* -------------------------------------------------------- CoefficientList
\* coeffs.into(): the butterfly along each variable axis, (a, b) -> (a, a+b).
RECURSIVE Butterfly(_, _)
Butterfly(list, axis) ==
    IF Pow2(axis) >= Len(list) THEN list
    ELSE Butterfly([i \in 1 .. Len(list) |->
                      IF ((i - 1) \div Pow2(axis)) % 2 = 1
                      THEN FAdd(list[i], list[i - Pow2(axis)])
                      ELSE list[i]], axis + 1)

ToEvaluations(coeffs) == Butterfly(coeffs, 0)

\* ------------------------------------------------------ SumcheckPolynomial
\* evaluate_at_point on one variable: interpolation through X = 0, 1, 2.
EvaluateAtPoint(poly, r) ==
    LET l0 == FMul(FMul(FSub(r, FOne), FSub(r, FTwo)), FInv(FTwo))
        l1 == FMul(r, FSub(FTwo, r))
        l2 == FMul(FMul(r, FSub(r, FOne)), FInv(FTwo))
    IN FAdd(FAdd(FMul(poly[1], l0), FMul(poly[2], l1)), FMul(poly[3], l2))

SumOverHypercube(poly) == FAdd(poly[1], poly[2])

\* --------------------------------------------------------- SumcheckSingle
VARIABLES
    pc,                       \* "start", "live", "aborted" (a panic) or "eval"
    evaluation_of_p,          \* field: the evaluations of p
    evaluation_of_equality,   \* field: the equality table
    num_variables,            \* field
    sum,                      \* field
    debug_assertions,         \* the build: whether debug_assert_eq! is compiled in
    last_call,                \* the last call made, its arguments and its outcome
    eqs,                      \* the (point, rand) pairs added since new
    compressed,               \* whether compress has succeeded since new
    claim,                    \* the claim the next round polynomial must sum to
    honest,                   \* every input so far was consistent with p
    n0,                       \* num_variables right after new
    ncompress,                \* the number of compress calls that succeeded
    whir,                     \* the WHIR prover's state, transcript and proof
    verifier,                 \* the WHIR verifier's state
    tasks                     \* the tasks of a parallel eval_eq and its arguments

vars == <<pc, evaluation_of_p, evaluation_of_equality, num_variables, sum,
          debug_assertions, last_call, eqs, compressed, claim, honest, n0,
          ncompress, whir, verifier, tasks>>

fields == <<evaluation_of_p, evaluation_of_equality, num_variables, sum>>

ghosts == <<last_call, eqs, compressed, claim, honest, n0, ncompress>>

\* No WHIR run: the sumcheck engine or an evaluation list is used on its own.
NoWhir == [phase |-> "none"]

NoVerifier == [phase |-> "none"]

\* No parallel eval_eq under way.
NoTasks == [phase |-> "none"]

\* The inner product of the two tables (the right side of the debug assertion).
InnerProduct(p, w) ==
    FSum([i \in 0 .. (NumEvals(p) - 1) |-> FMul(At(p, i), At(w, i))], NumEvals(p))

\* coeff_0: the sum over beta_prefix of p_0 * w_0
Coeff0(p, w, prefix_len) ==
    FSum([beta \in 0 .. (prefix_len - 1) |->
            FMul(At(p, 2 * beta), At(w, 2 * beta))], prefix_len)

Coeff2NoDifference(p, w, prefix_len) ==
    FSum([beta \in 0 .. (prefix_len - 1) |->
            FMul(At(p, 2 * beta + 1), At(w, 2 * beta + 1))], prefix_len)

\* coeff_2: the sum over beta_prefix of p_1 * w_1
Coeff2(p, w, prefix_len) ==
    FSum([beta \in 0 .. (prefix_len - 1) |->
            FMul(FSub(At(p, 2 * beta + 1), At(p, 2 * beta)),
                 FSub(At(w, 2 * beta + 1), At(w, 2 * beta)))], prefix_len)

Coeff1Once(s, coeff_0, coeff_2) == FSub(FSub(s, coeff_0), coeff_2)

\* coeff_1 = self.sum - coeff_0 - coeff_0 - coeff_2
Coeff1(s, coeff_0, coeff_2) == FSub(FSub(FSub(s, coeff_0), coeff_0), coeff_2)

\* compute_sumcheck_polynomial (past its assertion): the evaluations at 0, 1, 2
ComputeSumcheckPolynomial(p, w, nv, s) ==
    LET prefix_len == Pow2(nv - 1)
        coeff_0 == Coeff0(p, w, prefix_len)
        coeff_2 == Coeff2(p, w, prefix_len)
        coeff_1 == Coeff1(s, coeff_0, coeff_2)
        eval_0 == coeff_0
        eval_1 == FAdd(FAdd(coeff_0, coeff_1), coeff_2)
        eval_2 == FAdd(FAdd(coeff_0, FMul(FTwo, coeff_1)),
                       FMul(FMul(FTwo, FTwo), coeff_2))
    IN <<eval_0, eval_1, eval_2>>

EvalEqScalar1NoScalar(scalar, x) == x

\* s1 = scalar * x
EvalEqScalar1(scalar, x) == FMul(scalar, x)

\* eval_eq(eval, out, scalar): out with scalar * eq_eval added to it
RECURSIVE EvalEq(_, _, _)
EvalEq(eval, out, scalar) ==
    IF eval # <<>>
    THEN LET x == Head(eval)
             tail == Tail(eval)
             half == Len(out) \div 2
             low == SubSeq(out, 1, half)
             high == SubSeq(out, half + 1, Len(out))
             s1 == EvalEqScalar1(scalar, x)
             s0 == FSub(scalar, s1)
         IN EvalEq(tail, low, s0) \o EvalEq(tail, high, s1)
    ELSE IF out = <<>> THEN out
         ELSE [out EXCEPT ![1] = FAdd(@, scalar)]

\* The first loop of add_new_equality: eval_eq over points zipped with rands.
RECURSIVE EqualityAfter(_, _, _)
EqualityAfter(w, points, rands) ==
    IF points = <<>> \/ rands = <<>> THEN w
    ELSE EqualityAfter(EvalEq(Head(points), w, Head(rands)), Tail(points), Tail(rands))

RECURSIVE SumLoop(_, _, _)
SumLoop(s, rands, evaluations) ==
    IF rands = <<>> \/ evaluations = <<>> THEN s
    ELSE SumLoop(FAdd(s, FMul(Head(rands), Head(evaluations))),
                 Tail(rands), Tail(evaluations))

SumAfterReset(s, rands, evaluations) == SumLoop(FZero, rands, evaluations)

\* The second loop of add_new_equality: sum += rand * eval over the zip.
SumAfter(s, rands, evaluations) == SumLoop(s, rands, evaluations)

LengthsOkFirstOnly(points, rands, evaluations) == Len(rands) = Len(points)

\* The two assert_eq! on the lengths (new and add_new_equality).
LengthsOk(points, rands, evaluations) ==
    Len(rands) = Len(points) /\ Len(rands) = Len(evaluations)

CompressPScaled(p, nv, sigma, r) ==
    [b \in 1 .. Pow2(nv - 1) |->
        FMul(sigma, FAdd(FMul(At(p, 2 * (b - 1)), FSub(FOne, r)),
                         FMul(At(p, 2 * (b - 1) + 1), r)))]

\* compress: the new evaluation_of_p
CompressP(p, nv, sigma, r) ==
    [b \in 1 .. Pow2(nv - 1) |->
        FAdd(FMul(At(p, 2 * (b - 1)), FSub(FOne, r)),
             FMul(At(p, 2 * (b - 1) + 1), r))]

CompressWUnscaled(w, nv, sigma, r) ==
    [b \in 1 .. Pow2(nv - 1) |->
        FAdd(FMul(At(w, 2 * (b - 1)), FSub(FOne, r)),
             FMul(At(w, 2 * (b - 1) + 1), r))]

\* compress: the new evaluation_of_equality
CompressW(w, nv, sigma, r) ==
    [b \in 1 .. Pow2(nv - 1) |->
        FMul(sigma, FAdd(FMul(At(w, 2 * (b - 1)), FSub(FOne, r)),
                         FMul(At(w, 2 * (b - 1) + 1), r)))]

CompressSumUnscaled(sigma, r, poly) == EvaluateAtPoint(poly, r)

\* compress: the new sum
CompressSum(sigma, r, poly) == FMul(sigma, EvaluateAtPoint(poly, r))

CompressNumVariablesKept(nv) == nv

\* compress: self.num_variables -= 1
CompressNumVariables(nv) == nv - 1

\* ------------------------------------------------------------ the inputs
\* Points of n variables: a generic one and a Boolean one.
PointPool(n) ==
    IF n = 0 THEN {<<>>}
    ELSE {[j \in 1 .. n |-> (2 + j) % Modulus], FromBinaryHypercubePoint(1, n)}

\* The (point, combination randomness) pairs a caller may pass.
PairPool(n) ==
    IF n = 0 THEN {<<<<>>, 1>>, <<<<>>, 3>>}
    ELSE {<<[j \in 1 .. n |-> (2 + j) % Modulus], 1>>,
          <<FromBinaryHypercubePoint(1, n), 3>>}

\* Coefficient lists of n variables; a + b*i covers the tests' all-ones list.
CoeffPool(n) ==
    {[i \in 1 .. Pow2(n) |-> (1 + b * (i - 1)) % Modulus] : b \in {0, 2}}

\* evaluations[i] = p(points[i]), computed on the evaluation form of p
HonestEvaluations(p, points) ==
    [i \in 1 .. Len(points) |-> Evaluate(p, points[i])]

Tamper(evaluations, cheat) ==
    IF cheat /\ evaluations # <<>>
    THEN [evaluations EXCEPT ![1] = FAdd(@, FOne)]
    ELSE evaluations

Fill(len, v) == [i \in 1 .. len |-> v]

\* The argument triples (points, rands, evaluations) a caller may pass for a
\* polynomial with evaluations p: all lists of one length up to room, with the
\* true evaluations or a wrong first one, and lists of unequal lengths.
StatementInputs(p, room) ==
    LET n == Log2(Len(p))
    IN UNION {{LET pts == [i \in 1 .. k |-> pairs[i][1]]
               IN <<pts, [i \in 1 .. k |-> pairs[i][2]],
                    Tamper(HonestEvaluations(p, pts), cheat)>> :
                 pairs \in [1 .. k -> PairPool(n)], cheat \in BOOLEAN} :
              k \in 0 .. room}
       \cup {<<Fill(lens[1], CHOOSE pt \in PointPool(n) : TRUE), Fill(lens[2], FOne),
               Fill(lens[3], FOne)>> :
                 lens \in {<<1, 0, 0>>, <<1, 1, 0>>, <<0, 0, 1>>}}

IsHonest(p, points, evaluations) ==
    /\ Len(points) = Len(evaluations)
    /\ \A i \in 1 .. Len(points) : evaluations[i] = Evaluate(p, points[i])

\* The sum over i of rands[i] * evaluations[i], for lists of one length.
Combination(rands, evaluations) ==
    FSum([i \in 0 .. (Len(rands) - 1) |-> FMul(rands[i + 1], evaluations[i + 1])],
         Len(rands))

Zip(points, rands) == [i \in 1 .. Min(Len(points), Len(rands)) |-> <<points[i], rands[i]>>]

NoPoly == <<>>

Call(op, points, rands, evaluations, sigma, fold, poly, result) ==
    [op |-> op, points |-> points, rands |-> rands, evaluations |-> evaluations,
     sigma |-> sigma, fold |-> fold, poly |-> poly, result |-> result]

\* ----------------------------------------------------------------- actions
Init ==
    /\ pc = "start"
    /\ evaluation_of_p = <<>>
    /\ evaluation_of_equality = <<>>
    /\ num_variables = 0
    /\ sum = FZero
    /\ debug_assertions \in BOOLEAN
    /\ last_call = Call("none", <<>>, <<>>, <<>>, FZero, <<>>, NoPoly, "ok")
    /\ eqs = <<>>
    /\ compressed = FALSE
    /\ claim = FZero
    /\ honest = TRUE
    /\ n0 = 0
    /\ ncompress = 0
    /\ whir = NoWhir
    /\ verifier = NoVerifier
    /\ tasks = NoTasks

\* add_new_equality on a prover with fields (p, w, s): the outcome and the
\* fields it leaves ("assert": a length assertion failed, nothing was changed;
\* "debug_assert": the sum invariant failed after both loops ran).
SumcheckAdd(p, w, s, debug, points, rands, evaluations) ==
    LET w2 == EqualityAfter(w, points, rands)
        s2 == SumAfter(s, rands, evaluations)
        result == IF ~LengthsOk(points, rands, evaluations) THEN "assert"
                  ELSE IF debug /\ s2 # InnerProduct(p, w2) THEN "debug_assert"
                  ELSE "ok"
    IN [result |-> result,
        w |-> IF result = "assert" THEN w ELSE w2,
        sum |-> IF result = "assert" THEN s ELSE s2]

\* SumcheckSingle::new: the outcome and the fields of the prover built.
SumcheckNew(coeffs, debug, points, rands, evaluations) ==
    LET n == Log2(Len(coeffs))
        p == ToEvaluations(coeffs)
        added == SumcheckAdd(p, Fill(Pow2(n), FZero), FZero, debug, points, rands,
                             evaluations)
    IN [result |-> added.result, p |-> p, w |-> added.w, nv |-> n, sum |-> added.sum]

\* SumcheckSingle::new(coeffs, points, combination_randomness, evaluations)
New ==
    /\ pc = "start"
    /\ \E n \in 0 .. MaxVars : \E coeffs \in CoeffPool(n) :
       \E args \in StatementInputs(ToEvaluations(coeffs), MaxEqs) :
         LET points == args[1]
             rands == args[2]
             evaluations == args[3]
             built == SumcheckNew(coeffs, debug_assertions, points, rands, evaluations)
         IN /\ last_call' = Call("new", points, rands, evaluations, FZero, <<>>,
                                 NoPoly, built.result)
            /\ pc' = IF built.result = "ok" THEN "live" ELSE "aborted"
            /\ IF built.result = "assert"
               THEN UNCHANGED <<fields, eqs, claim, honest, n0>>
               ELSE /\ evaluation_of_p' = built.p
                    /\ evaluation_of_equality' = built.w
                    /\ num_variables' = built.nv
                    /\ sum' = built.sum
                    /\ eqs' = Zip(points, rands)
                    /\ claim' = Combination(rands, evaluations)
                    /\ honest' = IsHonest(built.p, points, evaluations)
                    /\ n0' = built.nv
    /\ UNCHANGED <<debug_assertions, compressed, ncompress, whir, verifier, tasks>>

\* compute_sumcheck_polynomial(&self)
Compute ==
    /\ pc = "live"
    /\ IF num_variables >= 1
       THEN /\ last_call' = Call("compute", <<>>, <<>>, <<>>, FZero, <<>>,
                   ComputeSumcheckPolynomial(evaluation_of_p, evaluation_of_equality,
                                             num_variables, sum), "ok")
            /\ pc' = "live"
       ELSE /\ last_call' = Call("compute", <<>>, <<>>, <<>>, FZero, <<>>, NoPoly,
                                 "assert")
            /\ pc' = "aborted"
    /\ UNCHANGED <<fields, debug_assertions, eqs, compressed, claim, honest, n0,
                   ncompress, whir, verifier, tasks>>

\* add_new_equality(points, combination_randomness, evaluations)
AddNewEquality ==
    /\ pc = "live"
    /\ \E args \in StatementInputs(evaluation_of_p, MaxEqs - Len(eqs)) :
         LET points == args[1]
             rands == args[2]
             evaluations == args[3]
             added == SumcheckAdd(evaluation_of_p, evaluation_of_equality, sum,
                                  debug_assertions, points, rands, evaluations)
         IN /\ last_call' = Call("add_new_equality", points, rands, evaluations,
                                 FZero, <<>>, NoPoly, added.result)
            /\ pc' = IF added.result = "ok" THEN "live" ELSE "aborted"
            /\ evaluation_of_equality' = added.w
            /\ sum' = added.sum
            /\ IF added.result = "assert"
               THEN UNCHANGED <<eqs, claim, honest>>
               ELSE /\ eqs' = eqs \o Zip(points, rands)
                    /\ claim' = FAdd(claim, Combination(rands, evaluations))
                    /\ honest' = (honest /\ IsHonest(evaluation_of_p, points, evaluations))
    /\ UNCHANGED <<evaluation_of_p, num_variables, debug_assertions, compressed, n0,
                   ncompress, whir, verifier, tasks>>

\* The arguments a caller may pass to compress: the polynomial the prover
\* computed in this state or that one with a wrong value at 2, a folding point
\* of one variable or (wrongly) of none.
CompressInputs ==
    LET g == IF num_variables >= 1
             THEN ComputeSumcheckPolynomial(evaluation_of_p, evaluation_of_equality,
                                            num_variables, sum)
             ELSE <<FZero, FZero, FZero>>
    IN {<<1, <<3>>, g>>, <<2, <<5>>, g>>, <<2, <<3>>, [g EXCEPT ![3] = FAdd(@, FOne)]>>,
        <<1, <<>>, g>>}

\* compress(combination_randomness, folding_randomness, sumcheck_poly)
Compress ==
    /\ pc = "live"
    /\ \E args \in CompressInputs :
         LET sigma == args[1]
             fold == args[2]
             poly == args[3]
             ok == Len(fold) = 1 /\ num_variables >= 1
         IN /\ last_call' = Call("compress", <<>>, <<>>, <<>>, sigma, fold, poly,
                                 IF ok THEN "ok" ELSE "assert")
            /\ pc' = IF ok THEN "live" ELSE "aborted"
            /\ IF ok
               THEN /\ num_variables' = CompressNumVariables(num_variables)
                    /\ evaluation_of_p' =
                          CompressP(evaluation_of_p, num_variables, sigma, fold[1])
                    /\ evaluation_of_equality' =
                          CompressW(evaluation_of_equality, num_variables, sigma, fold[1])
                    /\ sum' = CompressSum(sigma, fold[1], poly)
                    /\ compressed' = TRUE
                    /\ claim' = FMul(sigma, EvaluateAtPoint(poly, fold[1]))
                    /\ honest' = (honest /\ poly = ComputeSumcheckPolynomial(
                                     evaluation_of_p, evaluation_of_equality,
                                     num_variables, sum))
                    /\ ncompress' = ncompress + 1
               ELSE UNCHANGED <<fields, compressed, claim, honest, ncompress>>
    /\ UNCHANGED <<debug_assertions, eqs, n0, whir, verifier, tasks>>

Next == New \/ Compute \/ AddNewEquality \/ Compress

Spec == Init /\ [][Next]_vars

\* ------------------------------------------- EvaluationsList on its own
\* The values the cells of a list under evaluation are drawn from.
ValuePool == {0, 1, 3}

\* EvaluationsList::new(evals) for every list of 2^n pool values, n <= MaxVars.
InitEval ==
    /\ pc = "eval"
    /\ \E n \in 0 .. MaxVars : evaluation_of_p \in [1 .. Pow2(n) -> ValuePool]
    /\ evaluation_of_equality = <<>>
    /\ num_variables = Log2(Len(evaluation_of_p))
    /\ sum = FZero
    /\ debug_assertions = FALSE
    /\ last_call = Call("none", <<>>, <<>>, <<>>, FZero, <<>>, NoPoly, "ok")
    /\ eqs = <<>>
    /\ compressed = FALSE
    /\ claim = FZero
    /\ honest = TRUE
    /\ n0 = 0
    /\ ncompress = 0
    /\ whir = NoWhir
    /\ verifier = NoVerifier
    /\ tasks = NoTasks

\* evals.evaluate(point), at every Boolean point and at the generic ones; the
\* value returned is recorded as the call's one evaluation.
EvaluateCall ==
    /\ pc = "eval"
    /\ \E point \in {FromBinaryHypercubePoint(i, num_variables) :
                        i \in 0 .. (Pow2(num_variables) - 1)}
                    \cup PointPool(num_variables) :
         last_call' = Call("evaluate", <<point>>, <<>>,
                           <<Evaluate(evaluation_of_p, point)>>, FZero, <<>>,
                           NoPoly, "ok")
    /\ UNCHANGED <<pc, fields, debug_assertions, eqs, compressed, claim, honest,
                   n0, ncompress, whir, verifier, tasks>>

NextEval == EvaluateCall

SpecEval == InitEval /\ [][NextEval]_vars

\* ------------------------------------------------- WHIR: shared machinery
MaxFold == 2

MaxRounds == 2

\* The largest number of variables of a committed polynomial.
MaxWhirVars == 5

Reverse(s) == [i \in 1 .. Len(s) |-> s[Len(s) + 1 - i]]

\* a^e by squaring
RECURSIVE FPow(_, _)
FPow(a, e) ==
    IF e = 0 THEN FOne
    ELSE LET h == FPow(a, e \div 2)
         IN IF e % 2 = 0 THEN FMul(h, h) ELSE FMul(a, FMul(h, h))

\* The multilinear point of a domain element x: (x^(2^(n-1)), .., x^2, x).
Expand(x, n) == [j \in 1 .. n |-> FPow(x, Pow2(n - j))]

\* The powers 1, sigma, sigma^2, .. of one combination randomness.
Powers(sigma, count) == [i \in 1 .. count |-> FPow(sigma, i - 1)]

\* Folding the last variable of a coefficient list at r: c[2b] + r * c[2b+1].
FoldAxis(coeffs, r) ==
    [b \in 1 .. (Len(coeffs) \div 2) |->
        FAdd(At(coeffs, 2 * (b - 1)), FMul(r, At(coeffs, 2 * (b - 1) + 1)))]

\* Folding by the scalars of the half-rounds, in the order they were drawn.
RECURSIVE Fold(_, _)
Fold(coeffs, folding) ==
    IF folding = <<>> THEN coeffs
    ELSE Fold(FoldAxis(coeffs, Head(folding)), Tail(folding))

\* CoefficientList::evaluate(point)
CoeffEvaluate(coeffs, point) == At(Fold(coeffs, Reverse(point)), 0)

\* The transcript is the list of absorbed scalars; a challenge is a function
\* of the seed, of what was absorbed and of the number of challenges drawn.
Digest(list) ==
    FSum([i \in 0 .. (Len(list) - 1) |-> FMul((i + 1) % Modulus, list[i + 1])],
         Len(list))

Squeeze(seed, absorbed, nsq) == (seed + nsq + Digest(absorbed)) % Modulus

Challenges(seed, absorbed, nsq, count) ==
    [i \in 1 .. count |-> Squeeze(seed, absorbed, nsq + i - 1)]

\* The commitment: the root binds the committed polynomial; the leaf at the
\* domain element x holds the 2^k values that fold to the next polynomial's
\* value at x, laid out on the k-bit sub-hypercube.
Root(coeffs) == Digest(coeffs)

LeafOf(coeffs, point, k) ==
    [b \in 1 .. Pow2(k) |->
        CoeffEvaluate(coeffs, point \o FromBinaryHypercubePoint(b - 1, k))]

\* The folded evaluation of a leaf: the inner product of its cells with the
\* Lagrange weights of the folding randomness on the sub-hypercube.
FoldLeaf(leaf, folding) == Evaluate(leaf, Reverse(folding))

\* Proof of work of the given bits on a challenge.
PowOk(challenge, nonce, bits) == (challenge + nonce) % Pow2(bits) = 0

Grind(challenge, bits) ==
    CHOOSE nonce \in 0 .. (Pow2(bits) - 1) : PowOk(challenge, nonce, bits)

\* The round plan: out-of-domain and in-domain query counts per soundness type.
SoundnessTypes == {"UniqueDecoding", "ProvableList", "ConjectureList"}

QueryPlan(soundness_type) ==
    CASE soundness_type = "UniqueDecoding" -> [ood |-> 0, queries |-> 2]
      [] soundness_type = "ProvableList" -> [ood |-> 1, queries |-> 2]
      [] soundness_type = "ConjectureList" -> [ood |-> 1, queries |-> 1]

NumPoints == {0, 1, 2}

PowBits == {0, 1, 2}

Seeds == {0, 3}

\* The statement's points, drawn from the seed.
StatementPoints(seed, n, num_points) ==
    [i \in 1 .. num_points |-> [j \in 1 .. n |-> (seed + i + 2 * j) % Modulus]]

\* ------------------------------------------------------- WHIR: the prover
\* make_whir_things: the parameters, the polynomial and a statement with the
\* true evaluations.  num_variables is folding_factor * rounds (no variable is
\* left for the final polynomial); cross tells whether the first compress of a
\* round takes the sigma of the round before (4.F step 2g) or one (step 2a):
\* prover and verifier follow the same reading.
InitWhir ==
    /\ pc = "commit"
    /\ evaluation_of_p = <<>>
    /\ evaluation_of_equality = <<>>
    /\ num_variables = 0
    /\ sum = FZero
    /\ debug_assertions \in BOOLEAN
    /\ last_call = Call("none", <<>>, <<>>, <<>>, FZero, <<>>, NoPoly, "ok")
    /\ eqs = <<>>
    /\ compressed = FALSE
    /\ claim = FZero
    /\ honest = TRUE
    /\ n0 = 0
    /\ ncompress = 0
    /\ \E k \in 1 .. MaxFold, rounds \in 1 .. MaxRounds, num_points \in NumPoints,
          soundness_type \in SoundnessTypes, pow_bits \in PowBits, seed \in Seeds,
          cross \in BOOLEAN :
         /\ k * rounds <= MaxWhirVars
         /\ \E coeffs \in CoeffPool(k * rounds) :
              LET points == StatementPoints(seed, k * rounds, num_points)
              IN whir = [phase |-> "run",
                         folding_factor |-> k,
                         rounds |-> rounds,
                         num_variables |-> k * rounds,
                         plan |-> QueryPlan(soundness_type),
                         pow_bits |-> pow_bits,
                         cross |-> cross,
                         seed |-> seed,
                         statement |->
                             [points |-> points,
                              evaluations |->
                                  [i \in 1 .. num_points |->
                                      CoeffEvaluate(coeffs, points[i])]],
                         coeffs |-> coeffs,
                         trees |-> <<>>,
                         transcript |-> <<>>,
                         nsq |-> 0,
                         round |-> 0,
                         folding |-> <<>>,
                         sigma |-> FOne,
                         ood_points |-> <<>>,
                         ood_answers |-> <<>>,
                         openings |-> <<>>,
                         proof |-> [rounds |-> <<>>, final |-> <<>>]]
    /\ verifier = NoVerifier
    /\ tasks = NoTasks

\* Committer::commit: commit to the polynomial and absorb the root.
WhirCommit ==
    /\ pc = "commit"
    /\ whir' = [whir EXCEPT !.trees = <<whir.coeffs>>,
                            !.transcript = @ \o <<Root(whir.coeffs)>>]
    /\ pc' = "initial"
    /\ UNCHANGED <<fields, debug_assertions, ghosts, verifier, tasks>>

\* Prover::prove, step 1: squeeze the combination randomness and build the
\* sumcheck prover on the statement.
WhirInitialClaim ==
    /\ pc = "initial"
    /\ LET num_points == Len(whir.statement.points)
           eps == Challenges(whir.seed, whir.transcript, whir.nsq, num_points)
           built == SumcheckNew(whir.coeffs, debug_assertions, whir.statement.points,
                                eps, whir.statement.evaluations)
       IN /\ whir' = [whir EXCEPT !.nsq = @ + num_points]
          /\ IF built.result = "assert"
             THEN pc' = "aborted" /\ UNCHANGED fields
             ELSE /\ evaluation_of_p' = built.p
                  /\ evaluation_of_equality' = built.w
                  /\ num_variables' = built.nv
                  /\ sum' = built.sum
                  /\ pc' = IF built.result = "ok" THEN "halfround" ELSE "aborted"
    /\ UNCHANGED <<debug_assertions, ghosts, verifier, tasks>>

\* Step 2a, one half-round: compute g, absorb its three evaluations, squeeze
\* the folding scalar, compress.
WhirHalfRound ==
    /\ pc = "halfround"
    /\ IF num_variables < 1
       THEN pc' = "aborted" /\ UNCHANGED <<fields, whir>>
       ELSE LET g == ComputeSumcheckPolynomial(evaluation_of_p,
                         evaluation_of_equality, num_variables, sum)
                absorbed == whir.transcript \o g
                r == Squeeze(whir.seed, absorbed, whir.nsq)
            IN /\ evaluation_of_p' =
                      CompressP(evaluation_of_p, num_variables, whir.sigma, r)
               /\ evaluation_of_equality' =
                      CompressW(evaluation_of_equality, num_variables, whir.sigma, r)
               /\ num_variables' = CompressNumVariables(num_variables)
               /\ sum' = CompressSum(whir.sigma, r, g)
               /\ whir' = [whir EXCEPT !.transcript = absorbed,
                                       !.nsq = @ + 1,
                                       !.folding = @ \o <<r>>,
                                       !.sigma = FOne]
               /\ pc' = IF Len(whir.folding) + 1 = whir.folding_factor
                        THEN "ood" ELSE "halfround"
    /\ UNCHANGED <<debug_assertions, ghosts, verifier, tasks>>

\* Step 2b: squeeze the out-of-domain points, compute and absorb p at each.
WhirOod ==
    /\ pc = "ood"
    /\ LET xs == Challenges(whir.seed, whir.transcript, whir.nsq, whir.plan.ood)
           points == [i \in 1 .. whir.plan.ood |-> Expand(xs[i], num_variables)]
           answers == [i \in 1 .. whir.plan.ood |->
                          Evaluate(evaluation_of_p, points[i])]
       IN whir' = [whir EXCEPT !.nsq = @ + whir.plan.ood,
                               !.ood_points = points,
                               !.ood_answers = answers,
                               !.transcript = @ \o answers]
    /\ pc' = "fold"
    /\ UNCHANGED <<fields, debug_assertions, ghosts, verifier, tasks>>

\* Steps 2c and 2d: fold the coefficients by the round's folding randomness,
\* commit to the folded polynomial, absorb the root.
WhirFoldCommit ==
    /\ pc = "fold"
    /\ LET folded == Fold(whir.coeffs, whir.folding)
       IN whir' = [whir EXCEPT !.coeffs = folded,
                               !.trees = @ \o <<folded>>,
                               !.transcript = @ \o <<Root(folded)>>]
    /\ pc' = "query"
    /\ UNCHANGED <<fields, debug_assertions, ghosts, verifier, tasks>>

\* Step 2e: squeeze the in-domain indices, open the previous-round tree at
\* each and record the leaves in the proof.
WhirQuery ==
    /\ pc = "query"
    /\ LET xs == Challenges(whir.seed, whir.transcript, whir.nsq, whir.plan.queries)
           previous == whir.trees[Len(whir.trees) - 1]
           openings == [i \in 1 .. whir.plan.queries |->
                           [index |-> xs[i],
                            leaf |-> LeafOf(previous, Expand(xs[i], num_variables),
                                            whir.folding_factor)]]
       IN whir' = [whir EXCEPT !.nsq = @ + whir.plan.queries,
                               !.openings = openings,
                               !.proof.rounds = @ \o <<openings>>]
    /\ pc' = "pow"
    /\ UNCHANGED <<fields, debug_assertions, ghosts, verifier, tasks>>

\* Step 2f: proof of work on a fresh challenge; absorb the nonce.
WhirPow ==
    /\ pc = "pow"
    /\ LET challenge == Squeeze(whir.seed, whir.transcript, whir.nsq)
       IN whir' = [whir EXCEPT !.nsq = @ + 1,
                               !.transcript =
                                   @ \o <<Grind(challenge, whir.pow_bits)>>]
    /\ pc' = "extend"
    /\ UNCHANGED <<fields, debug_assertions, ghosts, verifier, tasks>>

\* Step 2g: squeeze sigma and absorb the out-of-domain answers and the folded
\* openings into the sumcheck state with add_new_equality; sigma is kept for
\* the compress of the cross-round transition.
WhirExtend ==
    /\ pc = "extend"
    /\ LET sigma == Squeeze(whir.seed, whir.transcript, whir.nsq)
           stir_points == [i \in 1 .. Len(whir.openings) |->
                              Expand(whir.openings[i].index, num_variables)]
           stir_evaluations == [i \in 1 .. Len(whir.openings) |->
                                   FoldLeaf(whir.openings[i].leaf, whir.folding)]
           points == whir.ood_points \o stir_points
           evaluations == whir.ood_answers \o stir_evaluations
           rands == Powers(sigma, Len(points))
           added == SumcheckAdd(evaluation_of_p, evaluation_of_equality, sum,
                                debug_assertions, points, rands, evaluations)
       IN /\ evaluation_of_equality' = added.w
          /\ sum' = added.sum
          /\ whir' = [whir EXCEPT !.nsq = @ + 1,
                                  !.round = @ + 1,
                                  !.folding = <<>>,
                                  !.sigma = IF whir.cross THEN sigma ELSE FOne]
          /\ pc' = IF added.result # "ok" THEN "aborted"
                   ELSE IF whir.round + 1 = whir.rounds THEN "final"
                   ELSE "halfround"
    /\ UNCHANGED <<evaluation_of_p, num_variables, debug_assertions, ghosts, verifier, tasks>>

\* Steps 3 and 4: send the final coefficients in the clear, then open the
\* last committed tree at the final queries.
WhirFinal ==
    /\ pc = "final"
    /\ LET absorbed == whir.transcript \o whir.coeffs
           xs == Challenges(whir.seed, absorbed, whir.nsq, whir.plan.queries)
           last == whir.trees[Len(whir.trees)]
           openings == [i \in 1 .. whir.plan.queries |->
                           [index |-> xs[i],
                            leaf |-> <<CoeffEvaluate(last,
                                          Expand(xs[i], Log2(Len(last))))>>]]
       IN whir' = [whir EXCEPT !.transcript = absorbed,
                               !.nsq = @ + whir.plan.queries,
                               !.proof.final = openings]
    /\ pc' = "verify"
    /\ UNCHANGED <<fields, debug_assertions, ghosts, verifier, tasks>>

\* ----------------------------------------------------- WHIR: the verifier
\* One weight eps * eq_z after the sumcheck folded its last variable at r
\* (and scaled by sigma): the point loses its last coordinate.
FoldWeight(weight, sigma, r) ==
    LET z == weight[1]
        last == z[Len(z)]
    IN <<SubSeq(z, 1, Len(z) - 1),
         FMul(FMul(sigma, weight[2]),
              FAdd(FMul(last, r), FMul(FSub(FOne, last), FSub(FOne, r))))>>

\* The weights at the residual (empty) folding point.
WeightValue(weights) ==
    FSum([i \in 0 .. (Len(weights) - 1) |-> weights[i + 1][2]], Len(weights))

\* A Merkle opening verifies against a root when the leaf is the one the
\* tree committed under that root holds at the index.
MerkleVerify(root, opening, nv, k) ==
    \E i \in 1 .. Len(whir.trees) :
        /\ Root(whir.trees[i]) = root
        /\ Len(whir.trees[i]) = Pow2(nv + k)
        /\ opening.leaf = LeafOf(whir.trees[i], Expand(opening.index, nv), k)

MerkleVerifyFinal(root, opening) ==
    \E i \in 1 .. Len(whir.trees) :
        /\ Root(whir.trees[i]) = root
        /\ opening.leaf = <<CoeffEvaluate(whir.trees[i],
                              Expand(opening.index, Log2(Len(whir.trees[i]))))>>

\* Verifier::verify, start: read the root, squeeze the combination randomness,
\* form the initial claim and weights from the statement.
VerifyStart ==
    /\ pc = "verify"
    /\ LET num_points == Len(whir.statement.points)
           eps == Challenges(whir.seed, SubSeq(whir.transcript, 1, 1), 0, num_points)
       IN verifier' = [phase |-> "run",
                       cursor |-> 1,
                       nsq |-> num_points,
                       claim |-> Combination(eps, whir.statement.evaluations),
                       weights |-> Zip(whir.statement.points, eps),
                       root |-> whir.transcript[1],
                       round |-> 0,
                       folding |-> <<>>,
                       sigma |-> FOne]
    /\ pc' = "v_halfround"
    /\ UNCHANGED <<fields, debug_assertions, ghosts, whir, tasks>>

\* One half-round: g(0) + g(1) must be the claim; the claim becomes g(r).
VerifyHalfRound ==
    /\ pc = "v_halfround"
    /\ LET g == SubSeq(whir.transcript, verifier.cursor + 1, verifier.cursor + 3)
           absorbed == SubSeq(whir.transcript, 1, verifier.cursor + 3)
           r == Squeeze(whir.seed, absorbed, verifier.nsq)
       IN IF Len(g) # 3 \/ SumOverHypercube(g) # verifier.claim
          THEN pc' = "reject" /\ UNCHANGED verifier
          ELSE /\ verifier' =
                     [verifier EXCEPT
                        !.cursor = @ + 3,
                        !.nsq = @ + 1,
                        !.claim = FMul(verifier.sigma, EvaluateAtPoint(g, r)),
                        !.weights = [i \in 1 .. Len(verifier.weights) |->
                                        FoldWeight(verifier.weights[i],
                                                   verifier.sigma, r)],
                        !.folding = @ \o <<r>>,
                        !.sigma = FOne]
               /\ pc' = IF Len(verifier.folding) + 1 = whir.folding_factor
                        THEN "v_round" ELSE "v_halfround"
    /\ UNCHANGED <<fields, debug_assertions, ghosts, whir, tasks>>

\* The rest of a round: the out-of-domain answers, the next root, the Merkle
\* openings and their folded values, the proof of work, and the new claim.
VerifyRound ==
    /\ pc = "v_round"
    /\ LET plan == whir.plan
           k == whir.folding_factor
           nv == whir.num_variables - (verifier.round + 1) * k
           c0 == verifier.cursor
           oods == Challenges(whir.seed, SubSeq(whir.transcript, 1, c0),
                              verifier.nsq, plan.ood)
           answers == SubSeq(whir.transcript, c0 + 1, c0 + plan.ood)
           c1 == c0 + plan.ood + 1
           root == whir.transcript[c1]
           nsq1 == verifier.nsq + plan.ood
           indexes == Challenges(whir.seed, SubSeq(whir.transcript, 1, c1), nsq1,
                                 plan.queries)
           nsq2 == nsq1 + plan.queries
           openings == whir.proof.rounds[verifier.round + 1]
           paths_ok == /\ Len(openings) = plan.queries
                       /\ \A i \in 1 .. plan.queries :
                            /\ openings[i].index = indexes[i]
                            /\ MerkleVerify(verifier.root, openings[i], nv, k)
           folded == [i \in 1 .. plan.queries |->
                         FoldLeaf(openings[i].leaf, verifier.folding)]
           challenge == Squeeze(whir.seed, SubSeq(whir.transcript, 1, c1), nsq2)
           c2 == c1 + 1
           nonce == whir.transcript[c2]
           sigma == Squeeze(whir.seed, SubSeq(whir.transcript, 1, c2), nsq2 + 1)
           points == [i \in 1 .. plan.ood |-> Expand(oods[i], nv)]
                     \o [i \in 1 .. plan.queries |-> Expand(indexes[i], nv)]
           rands == Powers(sigma, plan.ood + plan.queries)
       IN IF c2 > Len(whir.transcript) \/ ~paths_ok
             \/ ~PowOk(challenge, nonce, whir.pow_bits)
          THEN pc' = "reject" /\ UNCHANGED verifier
          ELSE /\ verifier' =
                     [verifier EXCEPT
                        !.cursor = c2,
                        !.nsq = nsq2 + 2,
                        !.claim = FAdd(@, Combination(rands, answers \o folded)),
                        !.weights = @ \o Zip(points, rands),
                        !.root = root,
                        !.round = @ + 1,
                        !.folding = <<>>,
                        !.sigma = IF whir.cross THEN sigma ELSE FOne]
               /\ pc' = IF verifier.round + 1 = whir.rounds
                        THEN "v_final" ELSE "v_halfround"
    /\ UNCHANGED <<fields, debug_assertions, ghosts, whir, tasks>>

\* The end: read the final polynomial, check the final openings against it,
\* evaluate it at the residual folding point and compare with the claim.
VerifyFinal ==
    /\ pc = "v_final"
    /\ LET plan == whir.plan
           nv == whir.num_variables - whir.rounds * whir.folding_factor
           c0 == verifier.cursor
           final == SubSeq(whir.transcript, c0 + 1, c0 + Pow2(nv))
           absorbed == SubSeq(whir.transcript, 1, c0 + Pow2(nv))
           indexes == Challenges(whir.seed, absorbed, verifier.nsq, plan.queries)
           openings == whir.proof.final
           paths_ok == /\ Len(openings) = plan.queries
                       /\ \A i \in 1 .. plan.queries :
                            /\ openings[i].index = indexes[i]
                            /\ MerkleVerifyFinal(verifier.root, openings[i])
                            /\ openings[i].leaf =
                                  <<CoeffEvaluate(final, Expand(indexes[i], nv))>>
           claim_ok == verifier.claim =
                          FMul(CoeffEvaluate(final, <<>>),
                               WeightValue(verifier.weights))
       IN /\ pc' = IF Len(final) = Pow2(nv) /\ c0 + Pow2(nv) = Len(whir.transcript)
                      /\ paths_ok /\ claim_ok
                   THEN "accept" ELSE "reject"
          /\ verifier' = [verifier EXCEPT !.cursor = c0 + Pow2(nv),
                                          !.nsq = @ + plan.queries]
    /\ UNCHANGED <<fields, debug_assertions, ghosts, whir, tasks>>

NextWhir ==
    \/ WhirCommit
    \/ WhirInitialClaim
    \/ WhirHalfRound
    \/ WhirOod
    \/ WhirFoldCommit
    \/ WhirQuery
    \/ WhirPow
    \/ WhirExtend
    \/ WhirFinal
    \/ VerifyStart
    \/ VerifyHalfRound
    \/ VerifyRound
    \/ VerifyFinal

SpecWhir == InitWhir /\ [][NextWhir]_vars

\* ---------------------------------------- eval_eq with feature "parallel"
\* The longest point eval_eq is called on.
MaxEvalLen == 3

\* const PARALLEL_THRESHOLD: 10 in the source, scaled down so that points of
\* MaxEvalLen coordinates take both the join branch and the sequential one.
PARALLEL_THRESHOLD == 1

\* One call eval_eq(eval, out, scalar), out being cells lo .. lo + len - 1 of
\* the buffer.
EvalEqCall(eval, lo, len, scalar) ==
    [eval |-> eval, lo |-> lo, len |-> len, scalar |-> scalar]

HighStartSame(call) == call.lo

\* out.split_at_mut(out.len() / 2): where the high half starts
HighStart(call) == call.lo + call.len \div 2

\* eval_eq(tail, low, s0)
LowCall(call) ==
    EvalEqCall(Tail(call.eval), call.lo, call.len \div 2,
               FSub(call.scalar, EvalEqScalar1(call.scalar, Head(call.eval))))

\* eval_eq(tail, high, s1)
HighCall(call) ==
    EvalEqCall(Tail(call.eval), HighStart(call), call.len - call.len \div 2,
               EvalEqScalar1(call.scalar, Head(call.eval)))

\* A task running one call: the calls it has still to make, in order, the
\* value it has loaded for out[0] += scalar, whether it waits in a join, and
\* the slice of the buffer it was given.
NewTask(call) ==
    [todo |-> <<call>>, reg |-> None, waiting |-> FALSE, lo |-> call.lo,
     len |-> call.len]

Runnable(t) ==
    /\ t \in DOMAIN tasks.threads
    /\ ~tasks.threads[t].waiting
    /\ tasks.threads[t].todo # <<>>

\* The buffers eval_eq may be handed: zeroed, or holding earlier additions.
BufferPool(n) ==
    {Fill(Pow2(n), FZero), [i \in 1 .. Pow2(n) |-> (3 * i) % Modulus]}

\* A call eval_eq(eval, out, scalar) from add_new_equality.
InitPar ==
    /\ pc = "par"
    /\ evaluation_of_p = <<>>
    /\ \E n \in 0 .. MaxEvalLen : \E eval \in PointPool(n), scalar \in {1, 3} :
         /\ evaluation_of_equality \in BufferPool(n)
         /\ num_variables = n
         /\ tasks = [phase |-> "run",
                     eval |-> eval,
                     scalar |-> scalar,
                     initial |-> evaluation_of_equality,
                     threads |-> [id \in {<<>>} |->
                                     NewTask(EvalEqCall(eval, 0, Pow2(n), scalar))],
                     writers |-> [c \in 0 .. (Pow2(n) - 1) |-> {}]]
    /\ sum = FZero
    /\ debug_assertions = FALSE
    /\ last_call = Call("none", <<>>, <<>>, <<>>, FZero, <<>>, NoPoly, "ok")
    /\ eqs = <<>>
    /\ compressed = FALSE
    /\ claim = FZero
    /\ honest = TRUE
    /\ n0 = 0
    /\ ncompress = 0
    /\ whir = NoWhir
    /\ verifier = NoVerifier

\* tail.len() > PARALLEL_THRESHOLD: join of the two closures; the caller
\* waits for both.
ParSpawn ==
    /\ pc = "par"
    /\ \E t \in DOMAIN tasks.threads :
         /\ Runnable(t)
         /\ LET call == Head(tasks.threads[t].todo)
                low == t \o <<0>>
                high == t \o <<1>>
            IN /\ call.eval # <<>>
               /\ Len(Tail(call.eval)) > PARALLEL_THRESHOLD
               /\ tasks' = [tasks EXCEPT !.threads =
                     [id \in DOMAIN tasks.threads \cup {low, high} |->
                        IF id = low THEN NewTask(LowCall(call))
                        ELSE IF id = high THEN NewTask(HighCall(call))
                        ELSE IF id = t
                        THEN [tasks.threads[t] EXCEPT !.todo = Tail(@),
                                                      !.waiting = TRUE]
                        ELSE tasks.threads[id]]]
    /\ UNCHANGED <<pc, fields, debug_assertions, ghosts, whir, verifier>>

\* Otherwise the two calls are made one after the other by the same task.
ParDescend ==
    /\ pc = "par"
    /\ \E t \in DOMAIN tasks.threads :
         /\ Runnable(t)
         /\ LET call == Head(tasks.threads[t].todo)
            IN /\ call.eval # <<>>
               /\ Len(Tail(call.eval)) <= PARALLEL_THRESHOLD
               /\ tasks' = [tasks EXCEPT !.threads[t].todo =
                               <<LowCall(call), HighCall(call)>> \o Tail(@)]
    /\ UNCHANGED <<pc, fields, debug_assertions, ghosts, whir, verifier>>

\* out[0] += scalar, the load
ParRead ==
    /\ pc = "par"
    /\ \E t \in DOMAIN tasks.threads :
         /\ Runnable(t)
         /\ LET call == Head(tasks.threads[t].todo)
            IN /\ call.eval = <<>>
               /\ tasks.threads[t].reg = None
               /\ tasks' = [tasks EXCEPT !.threads[t].reg =
                               At(evaluation_of_equality, call.lo)]
    /\ UNCHANGED <<pc, fields, debug_assertions, ghosts, whir, verifier>>

\* out[0] += scalar, the store
ParWrite ==
    /\ pc = "par"
    /\ \E t \in DOMAIN tasks.threads :
         /\ Runnable(t)
         /\ LET call == Head(tasks.threads[t].todo)
            IN /\ call.eval = <<>>
               /\ tasks.threads[t].reg # None
               /\ evaluation_of_equality' =
                     [evaluation_of_equality EXCEPT
                        ![call.lo + 1] = FAdd(tasks.threads[t].reg, call.scalar)]
               /\ tasks' = [tasks EXCEPT !.threads[t].todo = Tail(@),
                                         !.threads[t].reg = None,
                                         !.writers[call.lo] = @ \cup {t}]
    /\ UNCHANGED <<pc, evaluation_of_p, num_variables, sum, debug_assertions, ghosts,
                   whir, verifier>>

TaskDone(t) ==
    /\ t \in DOMAIN tasks.threads
    /\ tasks.threads[t].todo = <<>>
    /\ ~tasks.threads[t].waiting

\* join returns once both closures have returned.
ParJoin ==
    /\ pc = "par"
    /\ \E t \in DOMAIN tasks.threads :
         /\ tasks.threads[t].waiting
         /\ TaskDone(t \o <<0>>)
         /\ TaskDone(t \o <<1>>)
         /\ tasks' = [tasks EXCEPT !.threads =
               [id \in DOMAIN tasks.threads \ {t \o <<0>>, t \o <<1>>} |->
                  IF id = t THEN [tasks.threads[t] EXCEPT !.waiting = FALSE]
                  ELSE tasks.threads[id]]]
    /\ UNCHANGED <<pc, fields, debug_assertions, ghosts, whir, verifier>>

NextPar == ParSpawn \/ ParDescend \/ ParRead \/ ParWrite \/ ParJoin

SpecPar == InitPar /\ [][NextPar]_vars

\* ------------------------------------------------------------ the claims
\* Product in F of f(1) .. f(n).
RECURSIVE FProd(_, _)
FProd(f, n) == IF n <= 0 THEN FOne ELSE FMul(FProd(f, n - 1), f[n])

\* Bit j (1 = most significant) of the n-bit hypercube index x.
Bit(x, j, n) == (x \div Pow2(n - j)) % 2

\* eq_z(x) = product over j of (z_j x_j + (1 - z_j)(1 - x_j))
EqProduct(z, x) ==
    FProd([j \in 1 .. Len(z) |->
             FAdd(FMul(z[j], Bit(x, j, Len(z))),
                  FMul(FSub(FOne, z[j]), FSub(FOne, Bit(x, j, Len(z)))))], Len(z))

\* The sum over the pairs (z, eps) of eps * eq_z(x)
WeightedEq(pairs, x) ==
    FSum([i \in 0 .. (Len(pairs) - 1) |->
            FMul(pairs[i + 1][2], EqProduct(pairs[i + 1][1], x))], Len(pairs))

\* The round polynomial at X, computed from the two tables alone:
\* the sum over beta of (p0 + (p1 - p0) X) * (w0 + (w1 - w0) X).
RoundPolyAt(p, w, nv, X) ==
    FSum([beta \in 0 .. (Pow2(nv - 1) - 1) |->
            FMul(FAdd(At(p, 2 * beta),
                      FMul(FSub(At(p, 2 * beta + 1), At(p, 2 * beta)), X)),
                 FAdd(At(w, 2 * beta),
                      FMul(FSub(At(w, 2 * beta + 1), At(w, 2 * beta)), X)))],
         Pow2(nv - 1))

Constructed == pc \in {"live", "aborted"} /\ last_call.op # "none"
               /\ ~(last_call.op = "new" /\ last_call.result = "assert")

\* C2 (sumcheck round law): the polynomial g emitted by
\* compute_sumcheck_polynomial satisfies g(0) + g(1) = the prior claim, which
\* is the sum of rand_i * evaluation_i after new (and grows by that sum at each
\* add_new_equality) and is combination_randomness * g_prev(r) after compress.
SumcheckRoundLaw ==
    (last_call.op = "compute" /\ last_call.result = "ok")
        => SumOverHypercube(last_call.poly) = claim

\* A round polynomial emitted after a compress, for a claim that is not zero.
SumcheckRoundLawWitness ==
    /\ last_call.op = "compute" /\ last_call.result = "ok"
    /\ compressed /\ claim # FZero /\ num_variables >= 1
    /\ last_call.poly[1] # FZero

\* C3 (equality-table law): as long as no compress has happened, the table
\* built by new and extended by add_new_equality holds, at every hypercube
\* index x, the sum over the pairs added of eps_i * eq_{z_i}(x).
EqualityTableLaw ==
    (Constructed /\ ~compressed)
        => \A x \in 0 .. (Pow2(num_variables) - 1) :
              At(evaluation_of_equality, x) = WeightedEq(eqs, x)

\* Two pairs with different points were added, in two calls, on two variables.
EqualityTableLawWitness ==
    /\ pc = "live" /\ ~compressed /\ num_variables = 2
    /\ Len(eqs) = 2 /\ eqs[1][1] # eqs[2][1]
    /\ last_call.op = "add_new_equality" /\ Len(last_call.points) = 1
    /\ last_call.result = "ok"

\* C4 (sum invariant): when every evaluation passed to new and
\* add_new_equality is the value of the current p at its point and every
\* compress gets the polynomial computed in its state, sum is the inner product
\* of the two tables and the debug assertion has not failed.
SumInvariant ==
    (Constructed /\ honest)
        => /\ sum = InnerProduct(evaluation_of_p, evaluation_of_equality)
           /\ last_call.result # "debug_assert"

\* An honest extension after a compress, in a build with the assertion on.
SumInvariantWitness ==
    /\ pc = "live" /\ honest /\ debug_assertions /\ ncompress >= 1
    /\ last_call.op = "add_new_equality" /\ Len(last_call.points) >= 1
    /\ last_call.result = "ok" /\ sum # FZero /\ num_variables >= 1

\* C6: where sum is the inner product of the two tables, the three values
\* returned by compute_sumcheck_polynomial are g(0), g(1), g(2) of the round
\* polynomial g(X) = sum over beta of (p0 + (p1-p0)X) * (w0 + (w1-w0)X).
RoundPolynomialValues ==
    (last_call.op = "compute" /\ last_call.result = "ok"
     /\ sum = InnerProduct(evaluation_of_p, evaluation_of_equality))
        => last_call.poly =
              <<RoundPolyAt(evaluation_of_p, evaluation_of_equality, num_variables, 0),
                RoundPolyAt(evaluation_of_p, evaluation_of_equality, num_variables, 1),
                RoundPolyAt(evaluation_of_p, evaluation_of_equality, num_variables, 2)>>

\* A round polynomial of degree two with a linear term, on two variables.
RoundPolynomialValuesWitness ==
    /\ last_call.op = "compute" /\ last_call.result = "ok" /\ num_variables = 2
    /\ sum = InnerProduct(evaluation_of_p, evaluation_of_equality)
    /\ Coeff2(evaluation_of_p, evaluation_of_equality, 2) # FZero
    /\ Coeff1(sum, Coeff0(evaluation_of_p, evaluation_of_equality, 2),
              Coeff2(evaluation_of_p, evaluation_of_equality, 2)) # FZero

\* C7: a compress(sigma, r, g) that succeeds, in a state of m >= 1 variables,
\* leaves tables of length 2^(m-1) with
\*   evaluation_of_p'[b] = (1-r) p[2b] + r p[2b+1]   (not scaled by sigma),
\*   evaluation_of_equality'[b] = sigma ((1-r) w[2b] + r w[2b+1]),
\* sum' = sigma * g(r) and num_variables' = m - 1; and after every step both
\* tables have length 2^num_variables.
CompressLaw ==
    [][/\ (last_call'.op = "compress" /\ last_call'.result = "ok") =>
            LET m == num_variables
                r == last_call'.fold[1]
                sigma == last_call'.sigma
            IN /\ m >= 1
               /\ num_variables' = m - 1
               /\ Len(evaluation_of_p') = Pow2(m - 1)
               /\ Len(evaluation_of_equality') = Pow2(m - 1)
               /\ \A b \in 0 .. (Pow2(m - 1) - 1) :
                    /\ At(evaluation_of_p', b) =
                          FAdd(FMul(FSub(FOne, r), At(evaluation_of_p, 2 * b)),
                               FMul(r, At(evaluation_of_p, 2 * b + 1)))
                    /\ At(evaluation_of_equality', b) =
                          FMul(sigma,
                               FAdd(FMul(FSub(FOne, r), At(evaluation_of_equality, 2 * b)),
                                    FMul(r, At(evaluation_of_equality, 2 * b + 1))))
               /\ sum' = FMul(sigma, EvaluateAtPoint(last_call'.poly, r))
       /\ Constructed' =>
            /\ Len(evaluation_of_p') = Pow2(num_variables')
            /\ Len(evaluation_of_equality') = Pow2(num_variables')
      ]_vars

\* A compress with sigma = 2 from two variables to one, on tables that are
\* not constant.
CompressLawWitness ==
    /\ last_call.op = "compress" /\ last_call.result = "ok"
    /\ last_call.sigma = 2 /\ num_variables = 1 /\ n0 = 2
    /\ At(evaluation_of_p, 0) # At(evaluation_of_p, 1)
    /\ At(evaluation_of_equality, 0) # At(evaluation_of_equality, 1)
    /\ sum # FZero

\* C8: an add_new_equality(points, rands, evals) that passes its length
\* checks adds to every cell x of evaluation_of_equality the sum over i of
\* rands_i * eq_{points_i}(x), adds to sum the sum over i of rands_i * evals_i,
\* and leaves evaluation_of_p and num_variables as they were; with empty lists
\* it leaves all four fields as they were.
AddNewEqualityEffect ==
    [][(last_call'.op = "add_new_equality" /\ last_call'.result # "assert") =>
          LET points == last_call'.points
              rands == last_call'.rands
              evaluations == last_call'.evaluations
          IN /\ \A x \in 0 .. (Pow2(num_variables) - 1) :
                   At(evaluation_of_equality', x) =
                      FAdd(At(evaluation_of_equality, x),
                           WeightedEq(Zip(points, rands), x))
             /\ Len(evaluation_of_equality') = Len(evaluation_of_equality)
             /\ sum' = FAdd(sum, Combination(rands, evaluations))
             /\ evaluation_of_p' = evaluation_of_p
             /\ num_variables' = num_variables
             /\ (points = <<>> => fields' = fields)
      ]_vars

\* A two-pair extension after a compress that changed the table and the sum.
AddNewEqualityEffectWitness ==
    /\ last_call.op = "add_new_equality" /\ last_call.result = "ok"
    /\ Len(last_call.points) = 2 /\ compressed /\ num_variables >= 1
    /\ Combination(last_call.rands, last_call.evaluations) # FZero
    /\ sum # Combination(last_call.rands, last_call.evaluations)

\* C9: new accepts a zero-variable polynomial; compute_sumcheck_polynomial
\* and compress succeed exactly when num_variables >= 1 (compress given a
\* one-variable folding point), so that num_variables = n - (the number of
\* compress calls that succeeded) >= 0; called at num_variables = 0 either
\* aborts on its assertion with all four fields as they were.
ZeroVariableLaw ==
    [][/\ Constructed' => (num_variables' >= 0 /\ num_variables' + ncompress' = n0')
       /\ (pc = "live" /\ last_call'.op \in {"compute", "compress"}
           /\ (last_call'.op = "compress" => Len(last_call'.fold) = 1)) =>
             IF num_variables = 0
             THEN pc' = "aborted" /\ last_call'.result = "assert" /\ fields' = fields
             ELSE pc' = "live" /\ last_call'.result = "ok"
                  /\ (last_call'.op = "compress" => ncompress' = ncompress + 1)
      ]_vars

\* The second compress after new on a one-variable polynomial aborts.
ZeroVariableLawWitness ==
    /\ pc = "aborted" /\ last_call.op = "compress" /\ last_call.result = "assert"
    /\ Len(last_call.fold) = 1 /\ n0 = 1 /\ ncompress = 1 /\ num_variables = 0

\* C10: new and add_new_equality called with points, combination_randomness
\* and evaluations that are not all of one length abort on the length
\* assertion with the equality table, sum and the other fields as they were.
LengthsFailFast ==
    [][(last_call'.op \in {"new", "add_new_equality"}
        /\ ~(Len(last_call'.points) = Len(last_call'.rands)
             /\ Len(last_call'.points) = Len(last_call'.evaluations))) =>
          /\ pc' = "aborted"
          /\ last_call'.result = "assert"
          /\ fields' = fields
      ]_vars

\* add_new_equality aborted on one evaluation missing, the table not empty.
LengthsFailFastWitness ==
    /\ pc = "aborted" /\ last_call.op = "add_new_equality"
    /\ last_call.result = "assert"
    /\ Len(last_call.points) = 1 /\ Len(last_call.rands) = 1
    /\ Len(last_call.evaluations) = 0
    /\ sum # FZero /\ num_variables >= 1

\* C5: evaluate at the Boolean point from_binary_hypercube_point(i, n) returns
\* the stored value evals[i], which is also what the general formula, the sum
\* over j of eq(point, j) * evals[j], gives at that point.
EvaluateAtHypercube ==
    \A i \in 0 .. (Pow2(num_variables) - 1) :
       (last_call.op = "evaluate"
        /\ last_call.points[1] = FromBinaryHypercubePoint(i, num_variables))
          => /\ last_call.evaluations[1] = At(evaluation_of_p, i)
             /\ EvaluateSum(evaluation_of_p, last_call.points[1])
                   = At(evaluation_of_p, i)

\* Index 1 of a two-variable list whose cells 1 and 2 differ was evaluated.
EvaluateAtHypercubeWitness ==
    /\ last_call.op = "evaluate" /\ num_variables = 2
    /\ last_call.points[1] = FromBinaryHypercubePoint(1, 2)
    /\ At(evaluation_of_p, 1) # At(evaluation_of_p, 2)
    /\ At(evaluation_of_p, 1) # At(evaluation_of_p, 0)
    /\ last_call.evaluations[1] = At(evaluation_of_p, 1)

Slice(task) == task.lo .. (task.lo + task.len - 1)

\* C11 (parallel eval_eq): under every interleaving of the joined children,
\* once the call has returned the buffer is the one the sequential eval_eq
\* produces from the same point, scalar and initial buffer; every call a task
\* has still to make lies in the slice the task was given, the slices of two
\* tasks that run at the same time are disjoint, and no cell is written by
\* two tasks.
ParallelEvalEq ==
    pc = "par" =>
      /\ TaskDone(<<>>) =>
            evaluation_of_equality = EvalEq(tasks.eval, tasks.initial, tasks.scalar)
      /\ \A t \in DOMAIN tasks.threads :
            \A i \in 1 .. Len(tasks.threads[t].todo) :
               LET call == tasks.threads[t].todo[i]
               IN call.lo .. (call.lo + call.len - 1) \subseteq Slice(tasks.threads[t])
      /\ \A t, u \in DOMAIN tasks.threads :
            (t # u /\ ~tasks.threads[t].waiting /\ ~tasks.threads[u].waiting)
               => Slice(tasks.threads[t]) \cap Slice(tasks.threads[u]) = {}
      /\ \A c \in DOMAIN tasks.writers : Cardinality(tasks.writers[c]) <= 1

ParallelEvalEqWitness ==
    /\ pc = "par"
    /\ TaskDone(<<>>)
    /\ Len(tasks.eval) = MaxEvalLen
    /\ ToHypercube(tasks.eval) = None
    /\ tasks.initial # Fill(Len(tasks.initial), FZero)
    /\ tasks.writers[0] = {<<0>>}
    /\ tasks.writers[Len(tasks.initial) - 1] = {<<1>>}

====
